---- MODULE Spec2Model ----
(***************************************************************************)
(* The modal line editor of src/main.rs and its Line type of src/line.rs.  *)
(*                                                                         *)
(* One step of the model is one iteration of main's input loop: a byte is  *)
(* read, the mode is taken out of the State, the byte is dispatched to the *)
(* handler of that mode, and the screen is redrawn.  Rows and columns are  *)
(* 0-based as in the program; TLA+ sequences are 1-based, so document row  *)
(* r is text_lines[r + 1].  A character is its Unicode scalar value.       *)
(***************************************************************************)
EXTENDS Integers, Sequences, FiniteSets, TLC

VARIABLES
    state,            \* the State struct of main.rs (the termios fields left out)
    c,                \* buffer[0], the byte read last
    n_read,           \* number of bytes read from stdin so far
    status,           \* where main is: "init", "running", "quit", "error", "panic", "hang"
    overflow_checks,  \* whether the build traps on integer overflow (dev profile) or wraps
    hist,             \* history variable: the insertion session in progress or just ended
    lone_line,        \* a Line on its own, for the properties of src/line.rs
    line_op,          \* the operation that produced lone_line
    str_control_width \* what UnicodeWidthStr::width counts for a control character

vars == <<state, c, n_read, status, overflow_checks, hist, lone_line, line_op, str_control_width>>

\* the variables of the Line on its own, which the editor leaves alone
line_vars == <<lone_line, line_op, str_control_width>>

(***************************************************************************)
(* Bounds of the model.                                                    *)
(***************************************************************************)
\* length of the input stream the loop reads
MaxKeys == 7
\* largest viewport row count the terminal reports
MaxRows == 9
\* longest text of the Line on its own
MaxLineLen == 3

(***************************************************************************)
(* Input bytes the handlers match on.                                      *)
(***************************************************************************)
KeyH == 104
KeyL == 108
KeyJ == 106
KeyK == 107
KeyD == 100
KeyI == 105
KeyO == 111
KeyQ == 113
KeyEsc == 27
KeyBackspace == 127
\* a printable byte no Navigation branch matches
KeyX == 120
\* a control byte no branch of either handler matches
KeyTab == 9

\* usize arithmetic wraps modulo 2^64 when the build does not trap.  TLC's
\* integers are 32 bits wide, so the model wraps modulo 2^30: all that the
\* program does with a wrapped difference is compare it with a row index.
UsizeModulus == 2^30

Min(a, b) == IF a <= b THEN a ELSE b

(***************************************************************************)
(* Characters.                                                             *)
(***************************************************************************)
is_ascii(ch) == ch < 128

is_ascii_graphic(ch) == ch >= 33 /\ ch <= 126

\* bytes of the UTF-8 encoding of a scalar value
len_utf8(ch) ==
    IF ch < 128 THEN 1 ELSE IF ch < 2048 THEN 2 ELSE IF ch < 65536 THEN 3 ELSE 4

\* UnicodeWidthChar::width, with -1 for None: control characters have no
\* width, combining marks width 0, wide (East Asian, emoji) characters 2.
NoWidth == 0 - 1

CharWidth(ch) ==
    IF ch < 32 \/ (ch >= 127 /\ ch < 160) THEN NoWidth
    ELSE IF ch >= 768 /\ ch <= 879 THEN 0
    ELSE IF (ch >= 4352 /\ ch <= 4447) \/ (ch >= 19968 /\ ch <= 40959)
            \/ (ch >= 127744 /\ ch <= 129535) THEN 2
    ELSE 1

WidthOrZero(ch) == IF CharWidth(ch) = NoWidth THEN 0 ELSE CharWidth(ch)

RECURSIVE SumWidths(_)
SumWidths(s) == IF s = <<>> THEN 0 ELSE WidthOrZero(Head(s)) + SumWidths(Tail(s))

RECURSIVE ByteLen(_)
ByteLen(s) == IF s = <<>> THEN 0 ELSE len_utf8(Head(s)) + ByteLen(Tail(s))

Take(s, n) == SubSeq(s, 1, Min(n, Len(s)))

Skip(s, n) == SubSeq(s, Min(n, Len(s)) + 1, Len(s))

(***************************************************************************)
(* Line (src/line.rs).                                                     *)
(***************************************************************************)
Line_new == [text |-> <<>>, has_utf8 |-> FALSE, len |-> 0, width |-> 0]

\* UnicodeWidthStr::width: the sum of the characters' widths, a control
\* character counting control_width columns: 0 in unicode-width 0.1
\* (width(c).unwrap_or(0)), 1 since unicode-width 0.2.  The crate's version
\* is not fixed by the source.
RECURSIVE StrWidth(_, _)
StrWidth(s, control_width) ==
    IF s = <<>> THEN 0
    ELSE (IF CharWidth(Head(s)) = NoWidth THEN control_width ELSE CharWidth(Head(s)))
             + StrWidth(Tail(s), control_width)

with_string_lib(s, control_width) ==
    IF \E i \in 1..Len(s) : ~is_ascii(s[i])
    THEN [text |-> s, has_utf8 |-> TRUE, len |-> Len(s),
          width |-> StrWidth(s, control_width)]
    ELSE [text |-> s, has_utf8 |-> FALSE, len |-> ByteLen(s), width |-> ByteLen(s)]

\* Line::with_string on a text without control characters, as the seed is
with_string(s) ==
    IF \E i \in 1..Len(s) : ~is_ascii(s[i])
    THEN [text |-> s, has_utf8 |-> TRUE, len |-> Len(s), width |-> SumWidths(s)]
    ELSE [text |-> s, has_utf8 |-> FALSE, len |-> ByteLen(s), width |-> ByteLen(s)]

\* mutant: every line takes the ASCII fast path
get_unicode_width_at_fastPath(line, index) == index

get_unicode_width_at(line, index) ==
    IF ~line.has_utf8 THEN index
    ELSE IF index = line.len THEN line.width
    ELSE SumWidths(Take(line.text, index))

Line_len(line) == line.len

\* mutant: clear keeps the non-ASCII flag
Line_clear_keepsFlag(line) ==
    [text |-> <<>>, has_utf8 |-> line.has_utf8, len |-> 0, width |-> 0]

Line_clear(line) == [text |-> <<>>, has_utf8 |-> FALSE, len |-> 0, width |-> 0]

Line_push(line, ch) ==
    IF ~is_ascii(ch) /\ CharWidth(ch) # NoWidth
    THEN [text |-> Append(line.text, ch), has_utf8 |-> TRUE,
          len |-> line.len + 1, width |-> line.width + CharWidth(ch)]
    ELSE [text |-> Append(line.text, ch), has_utf8 |-> line.has_utf8,
          len |-> line.len + 1, width |-> line.width + 1]

RECURSIVE Line_extend(_, _)
Line_extend(line, chars) ==
    IF chars = <<>> THEN line
    ELSE Line_extend(Line_push(line, Head(chars)), Tail(chars))

(***************************************************************************)
(* State (src/main.rs).                                                    *)
(***************************************************************************)
ModeNormal == [tag |-> "Normal"]

ModeInsertion(buffer) == [tag |-> "Insertion", buffer |-> buffer]

\* The document main() seeds, each line cut to its first characters: the six
\* lines, the empty second line and the non-ASCII fourth line are kept.  The
\* editor reaches this very document from the full seed by backspacing the
\* tails away, so the model starts in a state of the program.
SeedText ==
    << <<35, 105>>,          \* #include <stdio.h>
       <<>>,                 \* (empty)
       <<105, 110, 116>>,    \* int main(void) {
       <<34, 240, 34>>,      \* printf("%s\n", "...") with its non-ASCII text
       <<114, 59>>,          \* return 0;
       <<125>> >>            \* }

RECURSIVE SeedLines(_)
SeedLines(texts) ==
    IF texts = <<>> THEN <<>>
    ELSE <<with_string(Head(texts))>> \o SeedLines(Tail(texts))

InitialState(rows) ==
    [window_size  |-> [row |-> rows],
     cursor_pos   |-> [col |-> 0, row |-> 0],
     target_col   |-> 0,
     text_lines   |-> SeedLines(SeedText),
     current_mode |-> ModeNormal]

\* Vec::get: the line at 0-based row r, if there is one
HasLine(s, r) == r >= 0 /\ r < Len(s.text_lines)

LineAt(s, r) == s.text_lines[r + 1]

get_current_line_is_some(s) == HasLine(s, s.cursor_pos.row)

get_current_line(s) == LineAt(s, s.cursor_pos.row)

\* a - b on usize: traps under overflow checks, wraps otherwise
Underflows(a, b) == a < b

wrapping_sub(a, b) == IF a >= b THEN a - b ELSE a - b + UsizeModulus

\* mutant: the column is set to target_col without the clamp to the line
clamp_col_unclamped(s) == [s EXCEPT !.cursor_pos.col = s.target_col]

clamp_col_to_current_line(s) ==
    LET len == IF get_current_line_is_some(s) THEN Line_len(get_current_line(s)) ELSE 0
    IN  [s EXCEPT !.cursor_pos.col = Min(s.target_col, len)]

SplitBuffer_open(line, col) ==
    [start |-> Take(line.text, col), end |-> Skip(line.text, col)]

\* mutant: the end of the line is not a place to insert at
enable_insertion_mode_strict(s) ==
    IF get_current_line_is_some(s) /\ s.cursor_pos.col < Line_len(get_current_line(s))
    THEN [s EXCEPT !.current_mode =
                       ModeInsertion(SplitBuffer_open(get_current_line(s), s.cursor_pos.col))]
    ELSE s

enable_insertion_mode(s) ==
    IF get_current_line_is_some(s) /\ s.cursor_pos.col <= Line_len(get_current_line(s))
    THEN [s EXCEPT !.current_mode =
                       ModeInsertion(SplitBuffer_open(get_current_line(s), s.cursor_pos.col))]
    ELSE s

\* slice::rotate_left(1)
\* mutant: the suffix is rotated to the right
rotate_right_1(seq) ==
    IF seq = <<>> THEN seq ELSE <<seq[Len(seq)]>> \o SubSeq(seq, 1, Len(seq) - 1)

rotate_left_1(seq) == IF seq = <<>> THEN seq ELSE Tail(seq) \o <<Head(seq)>>

\* Vec::insert(index, x), index <= len
\* mutant: the element goes in one place further down
Vec_insert_after(seq, index, x) ==
    SubSeq(seq, 1, index + 1) \o <<x>> \o SubSeq(seq, index + 2, Len(seq))

Vec_insert(seq, index, x) ==
    SubSeq(seq, 1, index) \o <<x>> \o SubSeq(seq, index + 1, Len(seq))

Continue(s) == [st |-> s, res |-> "continue"]

Exit(s) == [st |-> s, res |-> "exit"]

Panic(s) == [st |-> s, res |-> "panic"]

Failed(s) == [st |-> s, res |-> "error"]

\* mutant: move-right stops one column late
MoveRight_late(s) ==
    IF get_current_line_is_some(s) /\ s.cursor_pos.col > Line_len(get_current_line(s))
    THEN Continue(s)
    ELSE Continue([s EXCEPT !.cursor_pos.col = s.cursor_pos.col + 1,
                            !.target_col = s.cursor_pos.col + 1])

MoveLeft(s) ==
    IF s.cursor_pos.col = 0 THEN Continue(s)
    ELSE Continue([s EXCEPT !.cursor_pos.col = s.cursor_pos.col - 1,
                            !.target_col = s.cursor_pos.col - 1])

MoveRight(s) ==
    IF get_current_line_is_some(s) /\ s.cursor_pos.col >= Line_len(get_current_line(s))
    THEN Continue(s)
    ELSE Continue([s EXCEPT !.cursor_pos.col = s.cursor_pos.col + 1,
                            !.target_col = s.cursor_pos.col + 1])

\* mutant: the viewport test against the last viewport row, rows - 1
AtViewportEnd_lastRow(s) == s.cursor_pos.row >= wrapping_sub(s.window_size.row, 1)

\* the viewport test of move-down: cursor_pos.row >= window_size.row - 3
AtViewportEnd(s) == s.cursor_pos.row >= wrapping_sub(s.window_size.row, 3)

\* the document test of move-down: cursor_pos.row >= text_lines.len() - 1
AtDocumentEnd(s) == s.cursor_pos.row >= wrapping_sub(Len(s.text_lines), 1)

\* mutant: a vertical move forgets the remembered column
MoveUp_forgets(s) ==
    IF s.cursor_pos.row = 0 THEN Continue(s)
    ELSE LET moved == clamp_col_to_current_line(
                          [s EXCEPT !.cursor_pos.row = s.cursor_pos.row - 1])
         IN  Continue([moved EXCEPT !.target_col = moved.cursor_pos.col])

MoveDown(s, checks) ==
    IF checks /\ Underflows(s.window_size.row, 3) THEN Panic(s)
    ELSE IF AtViewportEnd(s) THEN Continue(s)
    ELSE IF checks /\ Underflows(Len(s.text_lines), 1) THEN Panic(s)
    ELSE IF AtDocumentEnd(s) THEN Continue(s)
    ELSE Continue(clamp_col_to_current_line(
                      [s EXCEPT !.cursor_pos.row = s.cursor_pos.row + 1]))

MoveUp(s) ==
    IF s.cursor_pos.row = 0 THEN Continue(s)
    ELSE Continue(clamp_col_to_current_line(
                      [s EXCEPT !.cursor_pos.row = s.cursor_pos.row - 1]))

\* mutant: the line is removed from the document
ClearLine_removes(s) ==
    IF get_current_line_is_some(s)
    THEN LET r == s.cursor_pos.row
         IN  Continue(clamp_col_to_current_line(
                 [s EXCEPT !.text_lines = SubSeq(s.text_lines, 1, r)
                                              \o SubSeq(s.text_lines, r + 2, Len(s.text_lines))]))
    ELSE Continue(s)

ClearLine(s) ==
    IF get_current_line_is_some(s)
    THEN LET r       == s.cursor_pos.row
             cleared == [s.text_lines EXCEPT ![r + 1] = Line_clear(s.text_lines[r + 1])]
             rotated == SubSeq(cleared, 1, r)
                            \o rotate_left_1(SubSeq(cleared, r + 1, Len(cleared)))
         IN  Continue(clamp_col_to_current_line([s EXCEPT !.text_lines = rotated]))
    ELSE Continue(s)

OpenLineBelow(s) ==
    LET r == s.cursor_pos.row + 1
    IN  IF r > Len(s.text_lines) THEN Panic([s EXCEPT !.cursor_pos.row = r])
        ELSE LET lines == IF r = Len(s.text_lines)
                          THEN Append(s.text_lines, Line_new)
                          ELSE Vec_insert(s.text_lines, r, Line_new)
             IN  Continue(enable_insertion_mode(
                     [s EXCEPT !.cursor_pos.row = r,
                               !.text_lines = lines,
                               !.cursor_pos.col = 0]))

\* mutant: 'q' is swallowed like an unknown byte
handle_keypress_normal_noQuit(s, ch, checks) ==
    CASE ch = KeyH -> MoveLeft(s)
      [] ch = KeyL -> MoveRight(s)
      [] ch = KeyJ -> MoveDown(s, checks)
      [] ch = KeyK -> MoveUp(s)
      [] ch = KeyD -> ClearLine(s)
      [] ch = KeyI -> Continue(enable_insertion_mode(s))
      [] ch = KeyO -> OpenLineBelow(s)
      [] OTHER -> Continue(s)

handle_keypress_normal(s, ch, checks) ==
    CASE ch = KeyH -> MoveLeft(s)
      [] ch = KeyL -> MoveRight(s)
      [] ch = KeyJ -> MoveDown(s, checks)
      [] ch = KeyK -> MoveUp(s)
      [] ch = KeyD -> ClearLine(s)
      [] ch = KeyI -> Continue(enable_insertion_mode(s))
      [] ch = KeyO -> OpenLineBelow(s)
      [] ch = KeyQ -> Exit(s)
      [] OTHER -> Continue(s)

\* mutant: only the part before the cursor is written back
Commit_dropsEnd(s, buffer) ==
    LET s1 == [s EXCEPT !.current_mode = ModeNormal, !.target_col = s.cursor_pos.col]
    IN  IF get_current_line_is_some(s1)
        THEN [s1 EXCEPT !.text_lines[s1.cursor_pos.row + 1] =
                  Line_extend(Line_clear(get_current_line(s1)), buffer.start)]
        ELSE s1

\* mutant: ESC leaves target_col as it was
Commit_keepsTarget(s, buffer) ==
    LET s1 == [s EXCEPT !.current_mode = ModeNormal]
    IN  IF get_current_line_is_some(s1)
        THEN [s1 EXCEPT !.text_lines[s1.cursor_pos.row + 1] =
                  Line_extend(Line_extend(Line_clear(get_current_line(s1)), buffer.start),
                              buffer.end)]
        ELSE s1

\* ESC: the buffer is drained back into the current line
Commit(s, buffer) ==
    LET s1 == [s EXCEPT !.current_mode = ModeNormal, !.target_col = s.cursor_pos.col]
    IN  IF get_current_line_is_some(s1)
        THEN [s1 EXCEPT !.text_lines[s1.cursor_pos.row + 1] =
                  Line_extend(Line_extend(Line_clear(get_current_line(s1)), buffer.start),
                              buffer.end)]
        ELSE s1

\* mutant: the buffer is written back while the session is still open
InsertChar_writesThrough(s, ch, buffer, write_ok) ==
    LET pushed == [buffer EXCEPT !.start = Append(buffer.start, ch)]
        s1     == [s EXCEPT !.cursor_pos.col = s.cursor_pos.col + 1,
                            !.text_lines[s.cursor_pos.row + 1] =
                                with_string(pushed.start \o pushed.end)]
    IN  IF write_ok THEN Continue([s1 EXCEPT !.current_mode = ModeInsertion(pushed)])
        ELSE Failed(s1)

\* mutant: backspace eats the character under the cursor instead
Backspace_forward(s, buffer, write_ok) ==
    IF s.cursor_pos.col # 0 /\ buffer.start # <<>>
    THEN LET popped == [buffer EXCEPT !.end = IF buffer.end = <<>> THEN <<>>
                                                ELSE Tail(buffer.end)]
             s1     == [s EXCEPT !.cursor_pos.col = s.cursor_pos.col - 1]
         IN  IF write_ok THEN Continue([s1 EXCEPT !.current_mode = ModeInsertion(popped)])
             ELSE Failed(s1)
    ELSE Continue([s EXCEPT !.current_mode = ModeInsertion(buffer)])

Backspace(s, buffer, write_ok) ==
    IF s.cursor_pos.col # 0 /\ buffer.start # <<>>
    THEN LET popped == [buffer EXCEPT !.start = SubSeq(buffer.start, 1, Len(buffer.start) - 1)]
             s1     == [s EXCEPT !.cursor_pos.col = s.cursor_pos.col - 1]
         IN  IF write_ok THEN Continue([s1 EXCEPT !.current_mode = ModeInsertion(popped)])
             ELSE Failed(s1)
    ELSE Continue([s EXCEPT !.current_mode = ModeInsertion(buffer)])

InsertChar(s, ch, buffer, write_ok) ==
    LET pushed == [buffer EXCEPT !.start = Append(buffer.start, ch)]
        s1     == [s EXCEPT !.cursor_pos.col = s.cursor_pos.col + 1]
    IN  IF write_ok THEN Continue([s1 EXCEPT !.current_mode = ModeInsertion(pushed)])
        ELSE Failed(s1)

\* s is the State as main hands it over: current_mode already replaced by Normal
handle_keypress_insertion(s, ch, buffer, write_ok) ==
    IF ch = KeyEsc THEN Continue(Commit(s, buffer))
    ELSE IF ch = KeyBackspace THEN Backspace(s, buffer, write_ok)
    ELSE IF is_ascii_graphic(ch) \/ ch = 32 THEN InsertChar(s, ch, buffer, write_ok)
    ELSE Continue([s EXCEPT !.current_mode = ModeInsertion(buffer)])

\* mutant: the characters behind the cursor are counted as well
CursorColumns_wholeBuffer(s) ==
    IF s.current_mode.tag = "Insertion"
    THEN SumWidths(s.current_mode.buffer.start \o s.current_mode.buffer.end)
    ELSE IF get_current_line_is_some(s)
         THEN get_unicode_width_at(get_current_line(s), s.cursor_pos.col)
         ELSE s.cursor_pos.col

\* the display column draw_ui puts the cursor at, before STARTING_COL is added
CursorColumns(s) ==
    IF s.current_mode.tag = "Insertion" THEN SumWidths(s.current_mode.buffer.start)
    ELSE IF get_current_line_is_some(s)
         THEN get_unicode_width_at(get_current_line(s), s.cursor_pos.col)
         ELSE s.cursor_pos.col

\* how draw_ui can end: its loop bound is window_size.row - 2, and every write
\* and the final flush can fail
draw_ui(s, checks) ==
    IF Underflows(s.window_size.row, 2)
    THEN IF checks THEN {"panic"} ELSE {"hang", "error"}
    ELSE {"ok", "error"}

(***************************************************************************)
(* History of the insertion session, kept beside the program's state so    *)
(* that what a session did can be compared with how it began: the row, the *)
(* column k and the line text s at entry and the bytes w typed since.  A   *)
(* session stays "pure" while only printable bytes are typed.              *)
(***************************************************************************)
HistNone == [phase |-> "none", pure |-> FALSE, row |-> 0, k |-> 0, s |-> <<>>, w |-> <<>>]

HistImpure == [HistNone EXCEPT !.phase = "open"]

HistEntered(s) ==
    IF s.current_mode.tag = "Insertion"
    THEN [phase |-> "open", pure |-> TRUE, row |-> s.cursor_pos.row,
          k |-> s.cursor_pos.col, s |-> get_current_line(s).text, w |-> <<>>]
    ELSE HistNone

HistTyped(h, ch) ==
    IF ch = KeyEsc THEN [h EXCEPT !.phase = "done"]
    ELSE IF h.pure /\ (is_ascii_graphic(ch) \/ ch = 32) THEN [h EXCEPT !.w = Append(h.w, ch)]
    ELSE HistImpure

(***************************************************************************)
(* main (src/main.rs): the input loop.                                     *)
(***************************************************************************)
Rows == 1..MaxRows

\* the bytes tried in Navigation: one per branch of handle_keypress_normal
NormalKeys == {KeyH, KeyL, KeyJ, KeyK, KeyD, KeyI, KeyO, KeyQ, KeyEsc, KeyTab}

\* the bytes tried in Insertion: one per branch of handle_keypress_insertion,
\* the printable branch by x and by q (which quits in Navigation)
InsertionKeys == {KeyEsc, KeyBackspace, KeyX, KeyQ, KeyTab}

StatusAfterDraw(outcome) == IF outcome = "ok" THEN "running" ELSE outcome

Init ==
    /\ \E rows \in Rows : state = InitialState(rows)
    /\ c = 0
    /\ n_read = 0
    /\ status = "init"
    /\ overflow_checks \in BOOLEAN
    /\ hist = HistNone
    /\ lone_line = Line_new
    /\ line_op = "new"
    /\ str_control_width = 0

\* state.init_ui(): the first draw
InitUi ==
    /\ status = "init"
    /\ \E outcome \in draw_ui(state, overflow_checks) : status' = StatusAfterDraw(outcome)
    /\ UNCHANGED <<state, c, n_read, overflow_checks, hist, line_vars>>

\* read_exact fails (end of input, read error): main returns the error
ReadFail ==
    /\ status = "running"
    /\ status' = "error"
    /\ UNCHANGED <<state, c, n_read, overflow_checks, hist, line_vars>>

\* what main does with the handler's result: leave the loop, or redraw
Finish(r) ==
    CASE r.res = "exit" -> status' = "quit"
      [] r.res = "panic" -> status' = "panic"
      [] r.res = "error" -> status' = "error"
      [] OTHER -> \E outcome \in draw_ui(r.st, overflow_checks) :
                      status' = StatusAfterDraw(outcome)

\* one byte in Navigation mode
NormalKeypress ==
    /\ status = "running"
    /\ n_read < MaxKeys
    /\ state.current_mode.tag = "Normal"
    /\ \E b \in NormalKeys :
          LET taken == [state EXCEPT !.current_mode = ModeNormal]
              r     == handle_keypress_normal(taken, b, overflow_checks)
          IN  /\ c' = b
              /\ state' = r.st
              /\ hist' = HistEntered(r.st)
              /\ Finish(r)
    /\ n_read' = n_read + 1
    /\ UNCHANGED <<overflow_checks, line_vars>>

\* one byte in Insertion mode, the handler's write to the terminal succeeding
InsertionKeypress ==
    /\ status = "running"
    /\ n_read < MaxKeys
    /\ state.current_mode.tag = "Insertion"
    /\ \E b \in InsertionKeys :
          LET taken == [state EXCEPT !.current_mode = ModeNormal]
              r     == handle_keypress_insertion(taken, b, state.current_mode.buffer, TRUE)
          IN  /\ c' = b
              /\ state' = r.st
              /\ hist' = HistTyped(hist, b)
              /\ Finish(r)
    /\ n_read' = n_read + 1
    /\ UNCHANGED <<overflow_checks, line_vars>>

\* one byte in Insertion mode, the handler's write to the terminal failing
InsertionKeypressWriteFails ==
    /\ status = "running"
    /\ n_read < MaxKeys
    /\ state.current_mode.tag = "Insertion"
    /\ \E b \in InsertionKeys :
          LET taken == [state EXCEPT !.current_mode = ModeNormal]
              r     == handle_keypress_insertion(taken, b, state.current_mode.buffer, FALSE)
          IN  /\ r.res = "error"
              /\ c' = b
              /\ state' = r.st
              /\ hist' = HistTyped(hist, b)
              /\ Finish(r)
    /\ n_read' = n_read + 1
    /\ UNCHANGED <<overflow_checks, line_vars>>

Next ==
    \/ InitUi
    \/ ReadFail
    \/ NormalKeypress
    \/ InsertionKeypress

\* The editor on a terminal: the handler's own writes go into the buffer of
\* the locked stdout, which the redraw before it has flushed, and fail only
\* with the flush that ends the next redraw.
Spec == Init /\ [][Next]_vars

NextFaulty == Next \/ InsertionKeypressWriteFails

\* The editor on an output sink any write to which can fail.
FaultSpec == Init /\ [][NextFaulty]_vars

(***************************************************************************)
(* Names for the parts of the state the properties speak of.               *)
(***************************************************************************)
Document == state.text_lines

Row == state.cursor_pos.row

Col == state.cursor_pos.col

InMode(tag) == state.current_mode.tag = tag

\* the characters of document row r (0-based)
RowText(lines, r) == lines[r + 1].text

\* the content of the line the cursor is on: the document row in Navigation,
\* before ++ after of the edit buffer in Insertion
CurrentLineText ==
    IF InMode("Insertion")
    THEN state.current_mode.buffer.start \o state.current_mode.buffer.end
    ELSE RowText(Document, Row)

\* this step reads byte b and dispatches it to the handler of mode tag
KeyHandled(b, tag) == n_read' = n_read + 1 /\ c' = b /\ InMode(tag)

(***************************************************************************)
(* C1: in every reachable state the cursor row is a row of the document    *)
(* (row < count, the document being non-empty) and the cursor column is at *)
(* most the length of the current line, the current line being the         *)
(* document row in Navigation and before ++ after in Insertion.            *)
(***************************************************************************)
C1_CursorInBounds ==
    /\ Len(Document) >= 1
    /\ Row >= 0 /\ Row < Len(Document)
    /\ Col >= 0 /\ Col <= Len(CurrentLineText)

\* the cursor stands at the end of an edited line that is longer than it was
C1_Witness ==
    /\ InMode("Insertion")
    /\ Row = 1
    /\ Col = 2
    /\ Len(CurrentLineText) = 2
    /\ RowText(Document, Row) = <<>>

(***************************************************************************)
(* C2: a session that enters Insertion at column k of a line s, types only *)
(* printable bytes w (possibly none) and ends with ESC leaves the document *)
(* row equal to s[0..k] ++ w ++ s[k..], the row unchanged, col = k + |w|   *)
(* and target_col = col, in Navigation mode.                               *)
(***************************************************************************)
C2_InsertRoundTrip ==
    (hist.phase = "done" /\ hist.pure) =>
        /\ InMode("Normal")
        /\ Row = hist.row
        /\ RowText(Document, Row) =
               SubSeq(hist.s, 1, hist.k) \o hist.w \o SubSeq(hist.s, hist.k + 1, Len(hist.s))
        /\ Col = hist.k + Len(hist.w)
        /\ state.target_col = Col

\* a session that began inside a line and typed two bytes has been committed
C2_Witness ==
    /\ hist.phase = "done" /\ hist.pure
    /\ hist.k > 0 /\ hist.k < Len(hist.s)
    /\ Len(hist.w) = 2

(***************************************************************************)
(* C3: clear-line ('d' in Navigation) at row r of an n-line document keeps *)
(* rows 0..r-1, gives each row i in r..n-2 the content row i+1 had, makes  *)
(* row n-1 empty, and keeps the line count and the cursor row.             *)
(***************************************************************************)
C3_ClearLineShifts ==
    [][KeyHandled(KeyD, "Normal") =>
          LET r == Row
              n == Len(Document)
          IN  /\ Len(Document') = n
              /\ Row' = r
              /\ \A i \in 0..(r - 1) : Document'[i + 1] = Document[i + 1]
              /\ \A i \in r..(n - 2) : RowText(Document', i) = RowText(Document, i + 1)
              /\ RowText(Document', n - 1) = <<>>]_vars

\* 'd' was the first byte, at row 0 of the seed: the second line moved up
\* and the last row is empty
C3_Witness ==
    /\ n_read = 1 /\ c = KeyD /\ status = "running"
    /\ RowText(Document, 0) = SeedText[2]
    /\ RowText(Document, 1) = SeedText[3]
    /\ RowText(Document, Len(Document) - 1) = <<>>

(***************************************************************************)
(* C4: the document is never empty and its line count never decreases:     *)
(* only open-new-line-below ('o' in Navigation) changes the count, by +1;  *)
(* clear-line, the ESC commit and every other step leave it unchanged.     *)
(***************************************************************************)
C4_LineCount ==
    [][/\ Len(Document) >= 1
       /\ Len(Document') >= 1
       /\ Len(Document') =
              Len(Document) + (IF KeyHandled(KeyO, "Normal") THEN 1 ELSE 0)]_vars

\* after 'o', a commit and a clear-line the document has one line more
C4_Witness ==
    /\ Len(Document) = Len(SeedText) + 1
    /\ c = KeyD /\ InMode("Normal") /\ n_read = 3

(***************************************************************************)
(* C5 as the specification states it: move-down ('j' in Navigation) that   *)
(* returns increments row and sets col = min(target_col, length(new line)) *)
(* exactly when row < rows-1 and row < count-1, and changes nothing        *)
(* otherwise.  The code tests rows - 3.                                    *)
(***************************************************************************)
MovedDown ==
    state' = [state EXCEPT !.cursor_pos.row = Row + 1,
                           !.cursor_pos.col =
                               Min(state.target_col, Len(RowText(Document, Row + 1)))]

C5_Original ==
    [][(KeyHandled(KeyJ, "Normal") /\ status' # "panic") =>
          IF Row < state.window_size.row - 1 /\ Row < Len(Document) - 1
          THEN MovedDown
          ELSE state' = state]_vars

(***************************************************************************)
(* C5, amended: move-down increments row and sets col = min(target_col,    *)
(* length(new line)) exactly when row < rows-3 and row < count-1, and      *)
(* changes nothing otherwise; rows - 3 is usize arithmetic, so with        *)
(* rows < 3 the handler panics in a build with overflow checks and         *)
(* otherwise the difference wraps and only the document test applies.      *)
(***************************************************************************)
C5_MoveDown ==
    [][KeyHandled(KeyJ, "Normal") =>
          IF state.window_size.row < 3 /\ overflow_checks
          THEN status' = "panic" /\ state' = state
          ELSE /\ status' # "panic"
               /\ IF /\ (state.window_size.row >= 3 => Row < state.window_size.row - 3)
                     /\ Row < Len(Document) - 1
                  THEN MovedDown
                  ELSE state' = state]_vars

\* 'j' has moved the cursor onto the empty second line and clamped the
\* column, in a viewport of four rows: a second 'j' did nothing
C5_Witness ==
    /\ c = KeyJ /\ InMode("Normal") /\ n_read = 4
    /\ state.window_size.row = 4
    /\ Row = 1
    /\ state.target_col = 2 /\ Col = 0

(***************************************************************************)
(* C6: a keystroke at a boundary changes nothing of the editor state and   *)
(* does not end the program: move-left at col 0, move-up at row 0,         *)
(* move-right at col = length(current line), move-down on the last         *)
(* document row, and backspace in Insertion at col 0.                      *)
(***************************************************************************)
AtBoundary ==
    \/ KeyHandled(KeyH, "Normal") /\ Col = 0
    \/ KeyHandled(KeyK, "Normal") /\ Row = 0
    \/ KeyHandled(KeyL, "Normal") /\ Col = Len(RowText(Document, Row))
    \/ KeyHandled(KeyJ, "Normal") /\ Row = Len(Document) - 1
    \/ KeyHandled(KeyBackspace, "Insertion") /\ Col = 0

C6_BoundaryNoOp ==
    [][AtBoundary => (state' = state /\ status' \in {"running", "error"})]_vars

\* the second byte was 'l' on the empty second line, where col = length = 0
C6_Witness ==
    /\ n_read = 2 /\ c = KeyL /\ InMode("Normal")
    /\ Row = 1 /\ Col = 0 /\ RowText(Document, 1) = <<>>
    /\ Len(Document) = Len(SeedText)

(***************************************************************************)
(* C7: a move-up or move-down that changes the row sets                    *)
(* col = min(target_col, length(new current line)) and keeps target_col,   *)
(* so going down from a short line and back up restores                    *)
(* col = min(target_col, length(short line)).                              *)
(***************************************************************************)
C7_StickyColumn ==
    [][((KeyHandled(KeyJ, "Normal") \/ KeyHandled(KeyK, "Normal")) /\ Row' # Row) =>
          /\ state'.target_col = state.target_col
          /\ Col' = Min(state.target_col, Len(RowText(Document', Row')))]_vars

\* l l j j k: from column 2 down over the empty line to column 2 of the
\* third line and back up to column 0 of the empty line
C7_Witness ==
    /\ n_read = 5 /\ c = KeyK /\ InMode("Normal")
    /\ Row = 1 /\ Col = 0 /\ state.target_col = 2

(***************************************************************************)
(* C8: an insertion session edits one line: a step taken in Insertion mode *)
(* never changes row; unless the byte is ESC it changes no document row,   *)
(* and the ESC commit changes at most the document row at `row`, every     *)
(* other row and the line count staying as they are.                       *)
(***************************************************************************)
C8_OneLinePerSession ==
    [][(InMode("Insertion") /\ n_read' = n_read + 1) =>
          /\ Row' = Row
          /\ Len(Document') = Len(Document)
          /\ \A i \in 0..(Len(Document) - 1) :
                 (i # Row \/ c' # KeyEsc) => Document'[i + 1] = Document[i + 1]]_vars

\* a session on the third line has typed a byte and been committed
C8_Witness ==
    /\ hist.phase = "done" /\ hist.pure
    /\ Row = 2
    /\ Len(hist.w) = 1
    /\ RowText(Document, 2) # hist.s

(***************************************************************************)
(* C9: a printable byte or a backspace handled in Insertion mode leaves    *)
(* the editor state either with the keystroke's full effect (buffer and    *)
(* col updated, mode Insertion owning the buffer) or as it was, also when  *)
(* the handler's write to the output sink fails.                           *)
(***************************************************************************)
FullEffect(b) ==
    LET buffer == state.current_mode.buffer
    IN  IF b = KeyBackspace
        THEN IF Col = 0 THEN state
             ELSE [state EXCEPT
                      !.cursor_pos.col = Col - 1,
                      !.current_mode =
                          ModeInsertion([buffer EXCEPT !.start =
                              SubSeq(buffer.start, 1, Len(buffer.start) - 1)])]
        ELSE [state EXCEPT
                 !.cursor_pos.col = Col + 1,
                 !.current_mode =
                     ModeInsertion([buffer EXCEPT !.start = Append(buffer.start, b)])]

C9_AllOrNothing ==
    [][(InMode("Insertion") /\ n_read' = n_read + 1
            /\ (c' = KeyBackspace \/ is_ascii_graphic(c') \/ c' = 32)) =>
          (state' = state \/ state' = FullEffect(c'))]_vars

(***************************************************************************)
(* C10: with rows > 0 the program never panics: no usize subtraction       *)
(* underflows and no document index is out of range.                       *)
(***************************************************************************)
C10_NeverPanics == status # "panic"

(***************************************************************************)
(* A Line on its own (src/line.rs): any sequence of with_string, push and  *)
(* clear, over an alphabet with one character of each kind.                *)
(***************************************************************************)
\* tab (ASCII control), a, U+0085 (control), U+00F0 (width 1),
\* U+0301 (combining, width 0), U+1F346 (emoji, width 2)
LineChars == {9, 97, 133, 240, 769, 127814}

LineTexts == UNION {[1..n -> LineChars] : n \in 0..MaxLineLen}

editor_vars == <<state, c, n_read, status, overflow_checks, hist>>

LineInit ==
    /\ state = InitialState(MaxRows)
    /\ c = 0
    /\ n_read = 0
    /\ status = "init"
    /\ overflow_checks = FALSE
    /\ hist = HistNone
    /\ lone_line = Line_new
    /\ line_op = "new"
    /\ str_control_width \in {0, 1}

LineWithString ==
    /\ \E s \in LineTexts : lone_line' = with_string_lib(s, str_control_width)
    /\ line_op' = "with_string"
    /\ UNCHANGED <<editor_vars, str_control_width>>

LinePush ==
    /\ Len(lone_line.text) < MaxLineLen
    /\ \E ch \in LineChars : lone_line' = Line_push(lone_line, ch)
    /\ line_op' = "push"
    /\ UNCHANGED <<editor_vars, str_control_width>>

LineClear ==
    /\ lone_line' = Line_clear(lone_line)
    /\ line_op' = "clear"
    /\ UNCHANGED <<editor_vars, str_control_width>>

LineNext ==
    \/ LineWithString
    \/ LinePush
    \/ LineClear

LineSpec == LineInit /\ [][LineNext]_vars

AllAscii(s) == \A i \in 1..Len(s) : is_ascii(s[i])

HasWide(s) == \E i \in 1..Len(s) : CharWidth(s[i]) > 1

HasZeroOrNoWidth(s) == \E i \in 1..Len(s) : CharWidth(s[i]) < 1

\* display_width_at(length)
WidthAtEnd(ln) == get_unicode_width_at(ln, Line_len(ln))

(***************************************************************************)
(* C11: a Line made by any sequence of with_string, push and clear has     *)
(* len = number of characters of text and width = sum of the characters'   *)
(* widths, an unmeasurable character counting 0 and an ASCII character 1.  *)
(***************************************************************************)
ClaimedWidth(ch) == IF is_ascii(ch) THEN 1 ELSE WidthOrZero(ch)

RECURSIVE SumClaimedWidths(_)
SumClaimedWidths(s) ==
    IF s = <<>> THEN 0 ELSE ClaimedWidth(Head(s)) + SumClaimedWidths(Tail(s))

C11_CachesExact ==
    /\ lone_line.len = Len(lone_line.text)
    /\ lone_line.width = SumClaimedWidths(lone_line.text)

(***************************************************************************)
(* C12 as the specification states it: for a string s with a double-width  *)
(* character, Line(s).display_width_at(length(s)) >= length(s), with       *)
(* equality iff no character of s is wider than one column.                *)
(***************************************************************************)
C12_Original ==
    (line_op = "with_string" /\ HasWide(lone_line.text)) =>
        /\ WidthAtEnd(lone_line) >= Len(lone_line.text)
        /\ (WidthAtEnd(lone_line) = Len(lone_line.text)) <=> ~HasWide(lone_line.text)

(***************************************************************************)
(* C12, amended: for a string s with a double-width character and no       *)
(* zero-width or unmeasurable character,                                   *)
(* Line(s).display_width_at(length(s)) > length(s).                        *)
(***************************************************************************)
C12_WideStrings ==
    (line_op = "with_string" /\ HasWide(lone_line.text)
         /\ ~HasZeroOrNoWidth(lone_line.text)) =>
        WidthAtEnd(lone_line) > Len(lone_line.text)

\* Line("a", emoji, U+00F0): three characters, four columns
C12_Witness ==
    /\ line_op = "with_string"
    /\ lone_line.text = <<97, 127814, 240>>
    /\ WidthAtEnd(lone_line) = 4

(***************************************************************************)
(* C13: an ASCII-only line, made from a string or by pushes, has           *)
(* display_width_at(length) = length = byte length, and                    *)
(* display_width_at(k) = k for every k <= length.                          *)
(***************************************************************************)
C13_AsciiLines ==
    AllAscii(lone_line.text) =>
        /\ WidthAtEnd(lone_line) = Line_len(lone_line)
        /\ Line_len(lone_line) = ByteLen(lone_line.text)
        /\ Line_len(lone_line) = Len(lone_line.text)
        /\ \A k \in 0..Line_len(lone_line) : get_unicode_width_at(lone_line, k) = k

\* a tab and a letter have been pushed onto an empty line
C13_Witness ==
    /\ line_op = "push"
    /\ lone_line.text = <<9, 97>>

(***************************************************************************)
(* C14: the loop ends normally only when 'q' is read in Navigation mode,   *)
(* and then always; in Insertion mode 'q' is inserted as text and the loop *)
(* goes on; and while input remains, quit is within two bytes of every     *)
(* state of the running loop: 'q' in Navigation, ESC then 'q' in           *)
(* Insertion.                                                              *)
(***************************************************************************)
\* the byte 'q', read now, makes handle_keypress_normal return Ok(false)
QuitsOnQ ==
    /\ KeyQ \in NormalKeys
    /\ handle_keypress_normal([state EXCEPT !.current_mode = ModeNormal],
                              KeyQ, overflow_checks).res = "exit"

\* the byte ESC, read now, brings the loop back around in Navigation mode
EscapesOnEsc ==
    LET r == handle_keypress_insertion([state EXCEPT !.current_mode = ModeNormal],
                                       KeyEsc, state.current_mode.buffer, TRUE)
    IN  /\ KeyEsc \in InsertionKeys
        /\ r.res = "continue"
        /\ r.st.current_mode.tag = "Normal"
        /\ "ok" \in draw_ui(r.st, overflow_checks)

C14_Quit ==
    /\ [][(status # "quit" /\ status' = "quit") => KeyHandled(KeyQ, "Normal")]_vars
    /\ [][KeyHandled(KeyQ, "Normal") => status' = "quit"]_vars
    /\ [][KeyHandled(KeyQ, "Insertion") =>
              /\ status' \in {"running", "error"}
              /\ state' = [state EXCEPT
                     !.cursor_pos.col = Col + 1,
                     !.current_mode.buffer.start =
                         Append(state.current_mode.buffer.start, KeyQ)]]_vars
    /\ []((status = "running" /\ n_read < MaxKeys /\ InMode("Normal"))
              => QuitsOnQ)
    /\ []((status = "running" /\ n_read < MaxKeys /\ InMode("Insertion"))
              => EscapesOnEsc)

\* i, q, ESC, q: the first q became text of the first line, the second quit
C14_Witness ==
    /\ status = "quit" /\ n_read = 4
    /\ RowText(Document, 0) = <<KeyQ>> \o SeedText[1]

(***************************************************************************)
(* C15: in Insertion mode the split point of the buffer is the cursor:     *)
(* buffer.start holds col characters; buffer.end is seeded on entry with   *)
(* the rest of the line from the entry column on and no byte of the        *)
(* session changes it, nor the row or the document under it, so that it    *)
(* stays a suffix of the current line; in a session of typed characters it *)
(* is the suffix of the entry text from the entry column.                  *)
(***************************************************************************)
BufferStart == state.current_mode.buffer.start

BufferEnd == state.current_mode.buffer.end

C15_SplitAtCursor ==
    /\ [](InMode("Insertion") =>
              /\ Len(BufferStart) = Col
              /\ HasLine(state, Row)
              /\ \E k \in 0..Len(RowText(Document, Row)) :
                     BufferEnd = Skip(RowText(Document, Row), k))
    /\ []((InMode("Insertion") /\ hist.phase = "open" /\ hist.pure) =>
              BufferEnd = Skip(hist.s, hist.k))
    /\ [][(InMode("Normal") /\ state'.current_mode.tag = "Insertion") =>
              /\ state'.current_mode.buffer.start =
                     Take(state'.text_lines[state'.cursor_pos.row + 1].text,
                          state'.cursor_pos.col)
              /\ state'.current_mode.buffer.end =
                     Skip(state'.text_lines[state'.cursor_pos.row + 1].text,
                          state'.cursor_pos.col)]_vars
    /\ [][(InMode("Insertion") /\ state'.current_mode.tag = "Insertion") =>
              /\ state'.current_mode.buffer.end = BufferEnd
              /\ state'.cursor_pos.row = Row
              /\ state'.text_lines = Document]_vars

\* i x q backspace: the cursor is back at column 1 behind a typed character,
\* with the whole seed line still waiting in buffer.end
C15_Witness ==
    /\ InMode("Insertion") /\ c = KeyBackspace /\ n_read = 4
    /\ Col = 1 /\ BufferStart = <<KeyX>> /\ BufferEnd = SeedText[1]

(***************************************************************************)
(* C16: the mode starts as Normal; in Normal 'i' and 'o' always lead to    *)
(* Insertion, the test of enable_insertion_mode (a current line, and col   *)
(* no greater than its length) passing in every Normal state; in Insertion *)
(* ESC always leads to Normal; every other byte leaves the mode as it was. *)
(***************************************************************************)
EntersInsertion(b) == b \in {KeyI, KeyO}

C16_ModeChanges ==
    /\ [](n_read = 0 => InMode("Normal"))
    /\ [](InMode("Normal") =>
              /\ get_current_line_is_some(state)
              /\ Col <= Line_len(get_current_line(state)))
    /\ [][\A b \in NormalKeys :
              KeyHandled(b, "Normal") =>
                  state'.current_mode.tag =
                      IF EntersInsertion(b) THEN "Insertion" ELSE "Normal"]_vars
    /\ [][\A b \in InsertionKeys :
              KeyHandled(b, "Insertion") =>
                  state'.current_mode.tag =
                      IF b = KeyEsc THEN "Normal" ELSE "Insertion"]_vars
    /\ [][state'.current_mode.tag # state.current_mode.tag => n_read' = n_read + 1]_vars

\* l l l i: insertion entered with the cursor behind the last character
C16_Witness ==
    /\ InMode("Insertion") /\ c = KeyI /\ n_read = 4
    /\ Row = 0 /\ Col = Len(SeedText[1]) /\ Col > 0 /\ BufferEnd = <<>>

(***************************************************************************)
(* C17: 'o' in Normal mode with the cursor on row r inserts one empty line *)
(* at row r + 1 (appended when r was the last row), leaves rows 0..r as    *)
(* they were, moves every former row i > r to i + 1, puts the cursor at    *)
(* row r + 1, column 0, and enters Insertion with both halves of the       *)
(* buffer empty; the handler does not panic.                               *)
(***************************************************************************)
OpenedBelow(r) ==
    /\ Len(state'.text_lines) = Len(Document) + 1
    /\ \A i \in 0..r : state'.text_lines[i + 1] = Document[i + 1]
    /\ state'.text_lines[r + 2] = Line_new
    /\ \A i \in (r + 1)..(Len(Document) - 1) : state'.text_lines[i + 2] = Document[i + 1]
    /\ state'.cursor_pos.row = r + 1
    /\ state'.cursor_pos.col = 0
    /\ state'.current_mode = ModeInsertion([start |-> <<>>, end |-> <<>>])
    /\ status' \in {"running", "error"}

C17_OpenLineBelow == [][KeyHandled(KeyO, "Normal") => OpenedBelow(Row)]_vars

\* j o: an empty line between the second and the third seed line
C17_Witness ==
    /\ InMode("Insertion") /\ c = KeyO /\ n_read = 2 /\ Row = 2 /\ Col = 0
    /\ Len(Document) = Len(SeedText) + 1
    /\ RowText(Document, 1) = SeedText[2]
    /\ RowText(Document, 2) = <<>>
    /\ RowText(Document, 3) = SeedText[3]

(***************************************************************************)
(* C18: at every ESC the display column of the cursor is the same on both  *)
(* sides of the mode change: the column draw_ui computes in Insertion mode *)
(* before the byte (the widths of buffer.start summed, buffer.end left     *)
(* out) equals the one it computes in Normal mode after it                 *)
(* (get_unicode_width_at(col) of the line the buffer was committed to).    *)
(***************************************************************************)
C18_ColumnsAcrossEsc ==
    [][KeyHandled(KeyEsc, "Insertion") =>
           /\ CursorColumns(state) = SumWidths(BufferStart)
           /\ state'.current_mode.tag = "Normal"
           /\ get_current_line_is_some(state')
           /\ CursorColumns(state') =
                  get_unicode_width_at(get_current_line(state'), state'.cursor_pos.col)
           /\ CursorColumns(state') = CursorColumns(state)]_vars

\* j j j l i x ESC: a character typed into the line that holds non-ASCII text,
\* in front of the non-ASCII character, and committed
C18_Witness ==
    /\ InMode("Normal") /\ c = KeyEsc /\ n_read = 7 /\ Row = 3 /\ Col = 2
    /\ RowText(Document, 3) = <<34, KeyX, 240, 34>>
    /\ get_current_line(state).has_utf8
    /\ CursorColumns(state) = 2

(***************************************************************************)
(* C19: in every reachable Normal state col = min(target_col, length of    *)
(* the current line), hence col <= target_col; 'd' leaves target_col alone *)
(* and derives col anew from it against the line that moved into the       *)
(* cursor row.                                                             *)
(***************************************************************************)
ClampedCol(s) == Min(s.target_col, Len(RowText(s.text_lines, s.cursor_pos.row)))

C19_ColFromTarget ==
    /\ [](InMode("Normal") =>
              /\ HasLine(state, Row)
              /\ Col = ClampedCol(state)
              /\ Col <= state.target_col)
    /\ [][KeyHandled(KeyD, "Normal") =>
              /\ state'.target_col = state.target_col
              /\ state'.cursor_pos.row = Row
              /\ RowText(state'.text_lines, Row) =
                     IF Row + 1 < Len(Document) THEN RowText(Document, Row + 1) ELSE <<>>
              /\ state'.cursor_pos.col = ClampedCol(state')]_vars

\* l l d: the empty second line moves under the cursor, which falls back to
\* column 0 while target_col stays 2
C19_Witness ==
    /\ InMode("Normal") /\ c = KeyD /\ n_read = 3 /\ Row = 0
    /\ Col = 0 /\ state.target_col = 2
    /\ RowText(Document, 0) = SeedText[2]
    /\ RowText(Document, 1) = SeedText[3]

(***************************************************************************)
(* C20: the viewport being tall enough for the initial row 0 to be a drawn *)
(* text row (rows >= 3), the cursor row stays a drawn text row after any   *)
(* sequence of input bytes: row < rows - 2.                                *)
(***************************************************************************)
C20_RowIsDrawn ==
    (state.window_size.row >= 3 /\ status \in {"running", "quit"})
        => Row < state.window_size.row - 2

====
